---------------------------- MODULE Spec2Model ----------------------------
(***************************************************************************)
(* Model of sereto's versioned configuration store (src/sereto/config.py): *)
(* VersionConfig (one version's targets, dates and people, with filter,    *)
(* select, add and delete operations) and Config (the version -> config    *)
(* mapping with its sorted-version accessors, load_from and save; the       *)
(* document at Config.path is `file`, written by save() step by step).     *)
(*                                                                         *)
(* Python strings are sequences of one-character strings, so that          *)
(* str.isnumeric(), int(str) and re.search() are computed, not assumed.    *)
(* Every call leaves its outcome in `result`: the operation, its           *)
(* arguments, "ok" or the exception class raised, the message, the value.  *)
(***************************************************************************)
EXTENDS Integers, Sequences, FiniteSets, TLC

VARIABLES targets, dates, people, version_configs, result, file, saving, loaded

vars == <<targets, dates, people, version_configs, result, file, saving, loaded>>

\* The persisted document at Config.path, the progress of a save() and the
\* Config a load_from() returned.
disk == <<file, saving, loaded>>

\* ------------------------------------------------------------- bounds
MaxTargets == 3
MaxItems == 2
MaxVersions == 3
MaxDocItems == 2
MaxQueryItems == 3

\* ------------------------------------------------------------ helpers
Range(s) == { s[i] : i \in 1..Len(s) }

\* The outcome of a call that returned `v`.
Ok(v) == [status |-> "ok", msg |-> [text |-> "", arg |-> <<>>], value |-> v]

\* The outcome of a call that raised SeretoValueError(text) with `arg` interpolated.
SeretoValueError(text, arg) ==
    [status |-> "SeretoValueError", msg |-> [text |-> text, arg |-> arg], value |-> <<>>]

\* The outcome of a call that raised a builtin exception of class `cls`.
Raised(cls) == [status |-> cls, msg |-> [text |-> "", arg |-> <<>>], value |-> <<>>]

\* What `result` holds: the call and its outcome.
Call(op, args, outcome) ==
    [op |-> op, args |-> args, status |-> outcome.status,
     msg |-> outcome.msg, value |-> outcome.value]

\* ------------------------------------------------------ Python strings
DecimalChars == <<"0", "1", "2", "3", "4", "5", "6", "7", "8", "9">>

\* U+00B2 SUPERSCRIPT TWO: numeric for str.isnumeric(), no decimal digit for int().
SuperscriptTwo == "sup2"

\* str.isnumeric(): non-empty and every character has a Unicode numeric value.
isnumeric(s) ==
    Len(s) > 0 /\ \A i \in 1..Len(s) : s[i] \in Range(DecimalChars) \cup {SuperscriptTwo}

\* Whether int(s) parses: only decimal digits (signs and blanks never reach int()
\* in select_target, isnumeric() having rejected them).
IsDecimal(s) == Len(s) > 0 /\ \A i \in 1..Len(s) : s[i] \in Range(DecimalChars)

DigitValue(c) == CHOOSE n \in 0..9 : DecimalChars[n + 1] = c

\* int(s) of a decimal string.
RECURSIVE py_int(_)
py_int(s) ==
    IF s = <<>> THEN 0
    ELSE py_int(SubSeq(s, 1, Len(s) - 1)) * 10 + DigitValue(s[Len(s)])

\* str(n) of a natural number.
RECURSIVE py_str(_)
py_str(n) ==
    IF n < 10 THEN <<DecimalChars[n + 1]>>
    ELSE py_str(n \div 10) \o <<DecimalChars[(n % 10) + 1]>>

\* re.search(pattern, s) for a pattern without metacharacters: substring search.
re_search(pattern, s) ==
    \E i \in 0..(Len(s) - Len(pattern)) : SubSeq(s, i + 1, i + Len(pattern)) = pattern

\* ------------------------------------------------------------- targets
s_dast == <<"d", "a", "s", "t">>
s_sast == <<"s", "a", "s", "t">>
s_mobile == <<"m", "o", "b">>
s_web == <<"w", "e", "b">>
s_webapp == <<"w", "e", "b", "a", "p", "p">>
s_api == <<"a", "p", "i">>
s_app == <<"a", "p", "p">>
s_dw == <<"d", "w">>
s_x == <<"x">>

\* TargetModel records: category, name and the unique name (uname).  One uname
\* is a digit string and one equals a category name.
TargetA == [category |-> s_dast, name |-> s_web, uname |-> <<"2">>]
TargetB == [category |-> s_sast, name |-> s_api, uname |-> s_dast]
TargetC == [category |-> s_dast, name |-> s_webapp, uname |-> s_dw]

TargetData == {TargetA, TargetB, TargetC}

\* Optional arguments: None, or a value.
None == [kind |-> "None", val |-> <<>>]
Str(s) == [kind |-> "str", val |-> s]
IntArg(n) == [kind |-> "int", val |-> n]
ListArg(l) == [kind |-> "list", val |-> l]

\* The category filters: unset, one category, a collection of categories.
CategoryFilters ==
    {None, Str(s_dast), Str(s_sast), Str(s_mobile),
     ListArg(<<s_dast, s_sast>>), ListArg(<<s_mobile, s_sast>>), ListArg(<<>>)}

\* The name patterns.
NameFilters == {None, Str(s_web), Str(s_app), Str(<<>>)}

\* Faulty variant of filter_targets: inverse returns the matches too.
filter_targets_same(ts, category, name, inverse) ==
    LET cats == IF category.kind = "str" THEN <<category.val>> ELSE category.val
        Match(t) ==
            /\ (category.kind = "None" \/ t.category \in Range(cats))
            /\ (name.kind = "None" \/ re_search(name.val, t.name))
    IN  SelectSeq(ts, Match)

\* VersionConfig.filter_targets.
filter_targets(ts, category, name, inverse) ==
    LET cats == IF category.kind = "str" THEN <<category.val>> ELSE category.val
        Match(t) ==
            /\ (category.kind = "None" \/ t.category \in Range(cats))
            /\ (name.kind = "None" \/ re_search(name.val, t.name))
        filtered_targets == SelectSeq(ts, Match)
        NotFiltered(t) == t \notin Range(filtered_targets)
    IN  IF inverse THEN SelectSeq(ts, NotFiltered) ELSE filtered_targets

\* The `categories` argument of select_target: the known category names.
CategoryLists == {<<s_dast, s_sast, s_mobile>>, <<s_sast>>}

\* The selectors: unset, integers, digit strings (one with a leading zero),
\* a numeric non-decimal string, category names, unames, unknown names.
Selectors ==
    {None}
    \cup { IntArg(n) : n \in -1..(MaxTargets + 1) }
    \cup { Str(py_str(n)) : n \in 0..(MaxTargets + 1) }
    \cup { Str(<<"0", "2">>), Str(<<SuperscriptTwo>>), Str(<<"-", "1">>), Str(<<>>) }
    \cup { Str(s_dast), Str(s_sast), Str(s_mobile), Str(s_dw), Str(s_x) }

\* targets[ix] of a Python list: a negative index counts from the end.
list_getitem(l, ix) ==
    IF 0 <= ix /\ ix < Len(l) THEN Ok(l[ix + 1])
    ELSE IF -Len(l) <= ix /\ ix < 0 THEN Ok(l[Len(l) + ix + 1])
    ELSE Raised("IndexError")

\* Faulty variant of select_unset: the first target of a non-empty list is taken.
select_unset_first(ts) ==
    IF Len(ts) = 0
    THEN SeretoValueError("cannot select target; no selector provided", Len(ts))
    ELSE list_getitem(ts, 0)

\* select_target, selector is None: only a single target may be present.
select_unset(ts) ==
    IF Len(ts) # 1
    THEN SeretoValueError("cannot select target; no selector provided", Len(ts))
    ELSE list_getitem(ts, 0)

\* select_target, by index: an int, or a string that isnumeric().  int() of a
\* numeric string that is not decimal raises ValueError.
select_by_index(ts, selector) ==
    IF selector.kind = "str" /\ ~IsDecimal(selector.val) THEN Raised("ValueError")
    ELSE LET ix == (IF selector.kind = "int" THEN selector.val
                    ELSE py_int(selector.val)) - 1
         IN  IF ~(0 <= ix /\ ix <= Len(ts) - 1)
             THEN SeretoValueError("target index out of range", <<>>)
             ELSE list_getitem(ts, ix)

\* select_target, by uname: exactly one target must bear it.
select_by_uname(ts, selector) ==
    LET ByUname(t) == t.uname = selector.val
        filtered_targets == SelectSeq(ts, ByUname)
    IN  IF Len(filtered_targets) # 1
        THEN SeretoValueError("target with uname not found", selector.val)
        ELSE list_getitem(filtered_targets, 0)

\* Faulty variant of select_by_category: a category without targets falls
\* through to the unique names.
select_by_category_fallthrough(ts, selector) ==
    LET InCategory(t) == t.category = selector.val
        in_category == SelectSeq(ts, InCategory)
    IN  IF Len(in_category) = 0 THEN select_by_uname(ts, selector)
        ELSE IF Len(in_category) = 1 THEN list_getitem(in_category, 0)
        ELSE SeretoValueError("category contains multiple targets, use uname when querying",
                              selector.val)

\* select_target, by category: the selector is one of `categories`.
select_by_category(ts, selector) ==
    LET InCategory(t) == t.category = selector.val
        in_category == SelectSeq(ts, InCategory)
    IN  IF Len(in_category) = 0
        THEN SeretoValueError("category does not contain any target", selector.val)
        ELSE IF Len(in_category) = 1 THEN list_getitem(in_category, 0)
        ELSE SeretoValueError("category contains multiple targets, use uname when querying",
                              selector.val)

\* Faulty variant of select_target: unique names are tried before index and category.
select_target_uname_first(ts, categories, selector) ==
    IF selector.kind = "None" THEN select_unset(ts)
    ELSE IF selector.kind = "str" /\ select_by_uname(ts, selector).status = "ok"
        THEN select_by_uname(ts, selector)
    ELSE IF selector.kind = "int" \/ isnumeric(selector.val)
        THEN select_by_index(ts, selector)
    ELSE IF selector.val \in Range(categories) THEN select_by_category(ts, selector)
    ELSE select_by_uname(ts, selector)

\* VersionConfig.select_target: the target data the call returns, or the
\* exception it raises.
select_target(ts, categories, selector) ==
    IF selector.kind = "None" THEN select_unset(ts)
    ELSE IF selector.kind = "int" \/ isnumeric(selector.val)
        THEN select_by_index(ts, selector)
    ELSE IF selector.val \in Range(categories) THEN select_by_category(ts, selector)
    ELSE select_by_uname(ts, selector)

\* ------------------------------------------------- add and delete
\* del l[ix] of a Python list: a negative index counts from the end.
list_delitem(l, ix) ==
    IF 0 <= ix /\ ix < Len(l)
        THEN Ok(SubSeq(l, 1, ix) \o SubSeq(l, ix + 2, Len(l)))
    ELSE IF -Len(l) <= ix /\ ix < 0
        THEN Ok(SubSeq(l, 1, Len(l) + ix) \o SubSeq(l, Len(l) + ix + 2, Len(l)))
    ELSE Raised("IndexError")

\* Faulty variant of delete_target_from: the lower bound of the range is not checked.
delete_target_unchecked_low(ts, index) ==
    LET ix == index - 1
    IN  IF ~(ix <= Len(ts) - 1) THEN SeretoValueError("index out of range", <<>>)
        ELSE list_delitem(ts, ix)

\* Faulty variant of delete_target_from: the index is not converted to 0-based.
delete_target_not_converted(ts, index) ==
    LET ix == index
    IN  IF ~(0 <= ix /\ ix <= Len(ts) - 1) THEN SeretoValueError("index out of range", <<>>)
        ELSE list_delitem(ts, ix)

\* VersionConfig.delete_target on the list `ts`: the new list, or the exception.
delete_target_from(ts, index) ==
    LET ix == index - 1
    IN  IF ~(0 <= ix /\ ix <= Len(ts) - 1) THEN SeretoValueError("index out of range", <<>>)
        ELSE list_delitem(ts, ix)

\* VersionConfig.delete_date on the list `ds`.
delete_date_from(ds, index) ==
    LET ix == index - 1
    IN  IF ~(0 <= ix /\ ix <= Len(ds) - 1) THEN SeretoValueError("index out of range", <<>>)
        ELSE list_delitem(ds, ix)

\* VersionConfig.delete_person on the list `ps`.
delete_person_from(ps, index) ==
    LET ix == index - 1
    IN  IF ~(0 <= ix /\ ix <= Len(ps) - 1) THEN SeretoValueError("index out of range", <<>>)
        ELSE list_delitem(ps, ix)

\* --------------------------------------------------------------- dates
\* DateType values, and a string that names no DateType.
DateTypes == {"pentest_ongoing", "report_sent"}
s_bogus == "bogus"

\* SeretoDate: a day number.
Days == 1..5

\* Date records: the type and a single SeretoDate or a DateRange (start < end).
Single(type, d) == [type |-> type, kind |-> "SeretoDate", start |-> d, end |-> d]
DateRange(type, start, end) == [type |-> type, kind |-> "DateRange", start |-> start, end |-> end]

DateData ==
    {Single("pentest_ongoing", 2), Single("report_sent", 5),
     DateRange("pentest_ongoing", 2, 3), DateRange("pentest_ongoing", 3, 5),
     DateRange("report_sent", 1, 3)}

\* The type filters: unset, one type, a collection, a string that is no DateType.
DateTypeFilters ==
    {None, Str("pentest_ongoing"), ListArg(<<"report_sent", "pentest_ongoing">>),
     ListArg(<<>>), Str(s_bogus)}

\* The inclusive bounds: unset, or a SeretoDate.
StartBounds == {None, IntArg(2), IntArg(3)}
EndBounds == {None, IntArg(3), IntArg(4)}

\* Faulty variant of filter_dates: a range matches when it overlaps the bounds.
filter_dates_overlap(ds, type, start, end, inverse) ==
    LET types == IF type.kind = "str" THEN <<type.val>> ELSE type.val
        Match(d) ==
            /\ (type.kind = "None" \/ d.type \in Range(types))
            /\ (start.kind = "None" \/ d.end >= start.val)
            /\ (end.kind = "None" \/ d.start <= end.val)
        filtered_dates == SelectSeq(ds, Match)
        NotFiltered(d) == d \notin Range(filtered_dates)
    IN  IF \E t \in Range(types) : t \notin DateTypes THEN Raised("ValueError")
        ELSE IF inverse THEN Ok(SelectSeq(ds, NotFiltered)) ELSE Ok(filtered_dates)

\* VersionConfig.filter_dates; start and end are the bounds after
\* SeretoDate.from_str.  DateType(t) of a string naming no DateType raises.
filter_dates(ds, type, start, end, inverse) ==
    LET types == IF type.kind = "str" THEN <<type.val>> ELSE type.val
        Match(d) ==
            /\ (type.kind = "None" \/ d.type \in Range(types))
            /\ \/ start.kind = "None"
               \/ (d.kind = "SeretoDate" /\ d.start >= start.val)
               \/ (d.kind = "DateRange" /\ d.start >= start.val)
            /\ \/ end.kind = "None"
               \/ (d.kind = "SeretoDate" /\ d.end <= end.val)
               \/ (d.kind = "DateRange" /\ d.end <= end.val)
        filtered_dates == SelectSeq(ds, Match)
        NotFiltered(d) == d \notin Range(filtered_dates)
    IN  IF \E t \in Range(types) : t \notin DateTypes THEN Raised("ValueError")
        ELSE IF inverse THEN Ok(SelectSeq(ds, NotFiltered)) ELSE Ok(filtered_dates)

\* -------------------------------------------------------------- people
PersonA == [type |-> "author", name |-> Str(s_web), business_unit |-> None,
            email |-> None, role |-> None]
PersonB == [type |-> "requestor", name |-> None, business_unit |-> Str(s_app),
            email |-> None, role |-> None]

PersonData == {PersonA, PersonB}

\* PersonType values.
PersonTypes == {"author", "requestor", "approver"}

\* VersionConfig.filter_people.  PersonType(t) of a string naming no
\* PersonType raises; a person without the field never matches a pattern on it.
filter_people(ps, type, name, business_unit, email, role, inverse) ==
    LET types == IF type.kind = "str" THEN <<type.val>> ELSE type.val
        Matches(pattern, value) ==
            pattern.kind = "None" \/ (value.kind # "None" /\ re_search(pattern.val, value.val))
        Match(p) ==
            /\ (type.kind = "None" \/ p.type \in Range(types))
            /\ Matches(name, p.name)
            /\ Matches(business_unit, p.business_unit)
            /\ Matches(email, p.email)
            /\ Matches(role, p.role)
        filtered_people == SelectSeq(ps, Match)
        NotFiltered(p) == p \notin Range(filtered_people)
    IN  IF \E t \in Range(types) : t \notin PersonTypes THEN Raised("ValueError")
        ELSE IF inverse THEN Ok(SelectSeq(ps, NotFiltered)) ELSE Ok(filtered_people)

\* -------------------------------------------------------------- Config
\* ProjectVersion: major and minor number.
Version(major, minor) == [major |-> major, minor |-> minor]

ProjectVersions == {Version(1, 0), Version(1, 5), Version(1, 10), Version(2, 0)}

\* ProjectVersion.__lt__: semantic-version order.
version_lt(a, b) == a.major < b.major \/ (a.major = b.major /\ a.minor < b.minor)

\* str(ProjectVersion): the key of a version in the persisted document.
version_str(v) == py_str(v.major) \o <<".">> \o py_str(v.minor)

\* ProjectVersion.from_str: the numbers before and after the ".".
from_str(s) ==
    LET dot == CHOOSE i \in 1..Len(s) : s[i] = "."
    IN  Version(py_int(SubSeq(s, 1, dot - 1)), py_int(SubSeq(s, dot + 1, Len(s))))

\* VersionConfigModel documents handed to add_version_config.
ModelInitial ==
    [id |-> "TEST", name |-> "Project", version_description |-> "Initial",
     targets |-> <<>>, dates |-> <<>>, people |-> <<>>]
ModelRetest ==
    [id |-> "TEST", name |-> "Project", version_description |-> "Retest",
     targets |-> <<TargetA>>, dates |-> <<Single("report_sent", 5)>>, people |-> <<PersonA>>]

VersionConfigModels == {ModelInitial, ModelRetest}

\* Target.to_model: the TargetModel of a target.
target_to_model(target) == target

\* Target.load(data=..., path=...): the target of a TargetModel.
target_load(data) == data

\* VersionConfig.from_model.
from_model(model, version) ==
    [version |-> version, id |-> model.id, name |-> model.name,
     version_description |-> model.version_description,
     targets |-> [i \in 1..Len(model.targets) |-> target_load(model.targets[i])],
     dates |-> model.dates, people |-> model.people]

\* list(self.version_configs.keys()): the keys of the dict, in insertion order.
keys(vcs) == [i \in 1..Len(vcs) |-> vcs[i].version]

\* sorted(l) for a list of ProjectVersion: a stable sort by __lt__.
RECURSIVE sorted(_)
sorted(l) ==
    LET RECURSIVE insort(_, _)
        insort(x, r) ==
            IF r = <<>> THEN <<x>>
            ELSE IF version_lt(x, Head(r)) THEN <<x>> \o r
            ELSE <<Head(r)>> \o insort(x, Tail(r))
    IN  IF l = <<>> THEN <<>>
        ELSE insort(l[Len(l)], sorted(SubSeq(l, 1, Len(l) - 1)))

\* Faulty variant of versions: the keys in insertion order.
versions_unsorted(vcs) == keys(vcs)

\* Config.versions.
versions(vcs) == sorted(keys(vcs))

\* self.version_configs[version].
dict_getitem(vcs, version) ==
    IF \E i \in 1..Len(vcs) : vcs[i].version = version
    THEN Ok(vcs[CHOOSE i \in 1..Len(vcs) : vcs[i].version = version])
    ELSE Raised("KeyError")

\* The VersionConfig object held under a known version.
StoredAt(vcs, version) == dict_getitem(vcs, version).value

\* Config.at_version, for a ProjectVersion argument.
at_version(vcs, version) ==
    IF version \notin Range(versions(vcs))
    THEN SeretoValueError("version not found", version)
    ELSE dict_getitem(vcs, version)

\* Config.first_version.
first_version(vcs) == list_getitem(versions(vcs), 0)

\* Config.last_version.
last_version(vcs) == list_getitem(versions(vcs), -1)

\* Config.first_config.
first_config(vcs) ==
    LET v == first_version(vcs)
    IN  IF v.status # "ok" THEN v ELSE at_version(vcs, v.value)

\* Config.last_config.
last_config(vcs) ==
    LET v == last_version(vcs)
    IN  IF v.status # "ok" THEN v ELSE at_version(vcs, v.value)

\* Faulty variant of add_version_config: an existing version is overwritten.
add_version_config_overwrite(vcs, version, config) ==
    IF version \in Range(versions(vcs))
    THEN Ok([i \in 1..Len(vcs) |->
                IF vcs[i].version = version THEN from_model(config, version) ELSE vcs[i]])
    ELSE Ok(Append(vcs, from_model(config, version)))

\* Config.add_version_config: the new mapping, or the exception.
add_version_config(vcs, version, config) ==
    IF version \in Range(versions(vcs))
    THEN SeretoValueError("version already exists", version)
    ELSE Ok(Append(vcs, from_model(config, version)))

\* --------------------------------------------------------- persistence
\* Config.sereto_version.
sereto_version == "1.2.0"

\* Faulty variant of to_model: the people are left out of the document.
to_model_without_people(vc) ==
    [id |-> vc.id, name |-> vc.name, version_description |-> vc.version_description,
     targets |-> [i \in 1..Len(vc.targets) |-> target_to_model(vc.targets[i])],
     dates |-> vc.dates, people |-> <<>>]

\* VersionConfig.to_model.
to_model(vc) ==
    [id |-> vc.id, name |-> vc.name, version_description |-> vc.version_description,
     targets |-> [i \in 1..Len(vc.targets) |-> target_to_model(vc.targets[i])],
     dates |-> vc.dates, people |-> vc.people]

\* Config.to_model: the ConfigModel, its version_configs in the dict's order.
config_to_model(vcs) ==
    [sereto_version |-> sereto_version,
     version_configs |-> [i \in 1..Len(vcs) |->
                            [version |-> vcs[i].version, model |-> to_model(vcs[i])]]]

\* ConfigModel.model_dump_json(indent=2) + "\n", as the lines of the document:
\* the tool version, one entry per version under its string key, the closing
\* brace with the final newline.
model_dump_json(cm) ==
    <<[line |-> "sereto_version", text |-> cm.sereto_version]>>
    \o [i \in 1..Len(cm.version_configs) |->
            [line |-> "version_config", key |-> version_str(cm.version_configs[i].version),
             value |-> cm.version_configs[i].model]]
    \o <<[line |-> "end"]>>

\* Whether the lines are a whole document.
IsDocument(lines) ==
    /\ Len(lines) >= 2
    /\ lines[1].line = "sereto_version"
    /\ lines[Len(lines)].line = "end"
    /\ \A i \in 2..(Len(lines) - 1) : lines[i].line = "version_config"

\* ConfigModel.load_from(path): the validated document, or the validation error.
ConfigModel_load_from(lines) ==
    IF ~IsDocument(lines) THEN Raised("ValidationError")
    ELSE Ok([sereto_version |-> lines[1].text,
             version_configs |-> [i \in 1..(Len(lines) - 2) |->
                [version |-> from_str(lines[i + 1].key), model |-> lines[i + 1].value]]])

\* Config.load_from.
load_from(lines) ==
    LET config == ConfigModel_load_from(lines)
    IN  IF config.status # "ok" THEN config
        ELSE Ok([sereto_version |-> config.value.sereto_version,
                 version_configs |-> [i \in 1..Len(config.value.version_configs) |->
                    from_model(config.value.version_configs[i].model,
                               config.value.version_configs[i].version)]])

\* The text Config.save writes.
save_text(vcs) == model_dump_json(config_to_model(vcs))

\* ------------------------------------------- VersionConfig operations
\* The indices passed to the delete operations: below, in and above 1..length.
IndexArgs(max) == -1..(max + 1)

\* Faulty variant of FilterTargets: the list is filtered in place.
FilterTargetsInPlace(category, name, inverse) ==
    /\ result' = Call("filter_targets", <<category, name, inverse>>,
                      Ok(filter_targets(targets, category, name, inverse)))
    /\ targets' = filter_targets(targets, category, name, inverse)
    /\ UNCHANGED <<dates, people, version_configs, disk>>

\* VersionConfig.filter_targets: a query.
FilterTargets(category, name, inverse) ==
    /\ result' = Call("filter_targets", <<category, name, inverse>>,
                      Ok(filter_targets(targets, category, name, inverse)))
    /\ UNCHANGED <<targets, dates, people, version_configs, disk>>

\* VersionConfig.select_target: a query.
SelectTarget(categories, selector) ==
    /\ result' = Call("select_target", <<categories, selector>>,
                      select_target(targets, categories, selector))
    /\ UNCHANGED <<targets, dates, people, version_configs, disk>>

\* VersionConfig.filter_dates: a query.
FilterDates(type, start, end, inverse) ==
    /\ result' = Call("filter_dates", <<type, start, end, inverse>>,
                      filter_dates(dates, type, start, end, inverse))
    /\ UNCHANGED <<targets, dates, people, version_configs, disk>>

\* VersionConfig.filter_people: a query.
FilterPeople(type, name, business_unit, email, role, inverse) ==
    /\ result' = Call("filter_people", <<type, name, business_unit, email, role, inverse>>,
                      filter_people(people, type, name, business_unit, email, role, inverse))
    /\ UNCHANGED <<targets, dates, people, version_configs, disk>>

\* VersionConfig.add_target: list.append.
AddTarget(target) ==
    /\ targets' = Append(targets, target)
    /\ result' = Call("add_target", <<target>>, Ok(<<>>))
    /\ UNCHANGED <<dates, people, version_configs, disk>>

\* VersionConfig.delete_target.
DeleteTarget(index) ==
    LET r == delete_target_from(targets, index)
    IN  /\ targets' = IF r.status = "ok" THEN r.value ELSE targets
        /\ result' = Call("delete_target", <<index>>, [r EXCEPT !.value = <<>>])
        /\ UNCHANGED <<dates, people, version_configs, disk>>

\* VersionConfig.add_date: list.append.
AddDate(date) ==
    /\ dates' = Append(dates, date)
    /\ result' = Call("add_date", <<date>>, Ok(<<>>))
    /\ UNCHANGED <<targets, people, version_configs, disk>>

\* VersionConfig.delete_date.
DeleteDate(index) ==
    LET r == delete_date_from(dates, index)
    IN  /\ dates' = IF r.status = "ok" THEN r.value ELSE dates
        /\ result' = Call("delete_date", <<index>>, [r EXCEPT !.value = <<>>])
        /\ UNCHANGED <<targets, people, version_configs, disk>>

\* VersionConfig.add_person: list.append.
AddPerson(person) ==
    /\ people' = Append(people, person)
    /\ result' = Call("add_person", <<person>>, Ok(<<>>))
    /\ UNCHANGED <<targets, dates, version_configs, disk>>

\* VersionConfig.delete_person.
DeletePerson(index) ==
    LET r == delete_person_from(people, index)
    IN  /\ people' = IF r.status = "ok" THEN r.value ELSE people
        /\ result' = Call("delete_person", <<index>>, [r EXCEPT !.value = <<>>])
        /\ UNCHANGED <<targets, dates, version_configs, disk>>

\* Config.versions: a query.
Versions ==
    /\ result' = Call("versions", <<>>, Ok(versions(version_configs)))
    /\ UNCHANGED <<targets, dates, people, version_configs, disk>>

\* Config.at_version: a query.
AtVersion(version) ==
    /\ result' = Call("at_version", <<version>>, at_version(version_configs, version))
    /\ UNCHANGED <<targets, dates, people, version_configs, disk>>

\* Config.first_version: a query.
FirstVersion ==
    /\ result' = Call("first_version", <<>>, first_version(version_configs))
    /\ UNCHANGED <<targets, dates, people, version_configs, disk>>

\* Config.last_version: a query.
LastVersion ==
    /\ result' = Call("last_version", <<>>, last_version(version_configs))
    /\ UNCHANGED <<targets, dates, people, version_configs, disk>>

\* Config.first_config: a query.
FirstConfig ==
    /\ result' = Call("first_config", <<>>, first_config(version_configs))
    /\ UNCHANGED <<targets, dates, people, version_configs, disk>>

\* Config.last_config: a query.
LastConfig ==
    /\ result' = Call("last_config", <<>>, last_config(version_configs))
    /\ UNCHANGED <<targets, dates, people, version_configs, disk>>

\* Config.add_version_config.
AddVersionConfig(version, config) ==
    LET r == add_version_config(version_configs, version, config)
    IN  /\ version_configs' = IF r.status = "ok" THEN r.value ELSE version_configs
        /\ result' = Call("add_version_config", <<version, config>>, [r EXCEPT !.value = <<>>])
        /\ UNCHANGED <<targets, dates, people, disk>>

\* Config.save, Path.write_text: open(path, "w") truncates the file.
SaveOpen ==
    /\ saving.pc # "writing"
    /\ saving' = [pc |-> "writing", old |-> file, new |-> save_text(version_configs)]
    /\ file' = <<>>
    /\ UNCHANGED <<targets, dates, people, version_configs, result, loaded>>

\* Config.save, Path.write_text: the text reaches the file piece by piece.
SaveWrite ==
    /\ saving.pc = "writing"
    /\ Len(file) < Len(saving.new)
    /\ file' = Append(file, saving.new[Len(file) + 1])
    /\ UNCHANGED <<targets, dates, people, version_configs, result, saving, loaded>>

\* Config.save, Path.write_text: the file is closed and save() returns.
SaveClose ==
    /\ saving.pc = "writing"
    /\ Len(file) = Len(saving.new)
    /\ saving' = [saving EXCEPT !.pc = "idle"]
    /\ result' = Call("save", <<>>, Ok(<<>>))
    /\ UNCHANGED <<targets, dates, people, version_configs, file, loaded>>

\* Config.save is interrupted while the file is open (the process is killed,
\* the write raises OSError): what was written stays.
SaveInterrupted ==
    /\ saving.pc = "writing"
    /\ saving' = [saving EXCEPT !.pc = "interrupted"]
    /\ result' = Call("save", <<>>, Raised("OSError"))
    /\ UNCHANGED <<targets, dates, people, version_configs, file, loaded>>

\* Config.load_from(path) of the document at the path.
LoadFrom ==
    /\ saving.pc # "writing"
    /\ loaded' = load_from(file)
    /\ result' = Call("load_from", <<>>, [load_from(file) EXCEPT !.value = <<>>])
    /\ UNCHANGED <<targets, dates, people, version_configs, file, saving>>

\* The mapping with the VersionConfig under `version` replaced by `vc`: the
\* effect of mutating the object at_version returned.
with_config(vcs, version, vc) ==
    [i \in 1..Len(vcs) |-> IF vcs[i].version = version THEN vc ELSE vcs[i]]

\* The outcome of a mutator on the VersionConfig at_version returns: the new
\* mapping when both succeed, the exception otherwise.
at_version_apply(vcs, version, field, outcome) ==
    IF outcome.status # "ok" THEN outcome
    ELSE Ok(with_config(vcs, version,
                [StoredAt(vcs, version) EXCEPT ![field] = outcome.value]))

\* config.at_version(version).add_target(target).
AtVersionAddTarget(version, target) ==
    LET vc == at_version(version_configs, version)
        r == IF vc.status # "ok" THEN vc
             ELSE at_version_apply(version_configs, version, "targets",
                                   Ok(Append(vc.value.targets, target)))
    IN  /\ version_configs' = IF r.status = "ok" THEN r.value ELSE version_configs
        /\ result' = Call("at_version.add_target", <<version, target>>, [r EXCEPT !.value = <<>>])
        /\ UNCHANGED <<targets, dates, people, disk>>

\* config.at_version(version).delete_target(index).
AtVersionDeleteTarget(version, index) ==
    LET vc == at_version(version_configs, version)
        r == IF vc.status # "ok" THEN vc
             ELSE at_version_apply(version_configs, version, "targets",
                                   delete_target_from(vc.value.targets, index))
    IN  /\ version_configs' = IF r.status = "ok" THEN r.value ELSE version_configs
        /\ result' = Call("at_version.delete_target", <<version, index>>, [r EXCEPT !.value = <<>>])
        /\ UNCHANGED <<targets, dates, people, disk>>

\* config.at_version(version).add_date(date).
AtVersionAddDate(version, date) ==
    LET vc == at_version(version_configs, version)
        r == IF vc.status # "ok" THEN vc
             ELSE at_version_apply(version_configs, version, "dates",
                                   Ok(Append(vc.value.dates, date)))
    IN  /\ version_configs' = IF r.status = "ok" THEN r.value ELSE version_configs
        /\ result' = Call("at_version.add_date", <<version, date>>, [r EXCEPT !.value = <<>>])
        /\ UNCHANGED <<targets, dates, people, disk>>

\* config.at_version(version).delete_date(index).
AtVersionDeleteDate(version, index) ==
    LET vc == at_version(version_configs, version)
        r == IF vc.status # "ok" THEN vc
             ELSE at_version_apply(version_configs, version, "dates",
                                   delete_date_from(vc.value.dates, index))
    IN  /\ version_configs' = IF r.status = "ok" THEN r.value ELSE version_configs
        /\ result' = Call("at_version.delete_date", <<version, index>>, [r EXCEPT !.value = <<>>])
        /\ UNCHANGED <<targets, dates, people, disk>>

\* config.at_version(version).add_person(person).
AtVersionAddPerson(version, person) ==
    LET vc == at_version(version_configs, version)
        r == IF vc.status # "ok" THEN vc
             ELSE at_version_apply(version_configs, version, "people",
                                   Ok(Append(vc.value.people, person)))
    IN  /\ version_configs' = IF r.status = "ok" THEN r.value ELSE version_configs
        /\ result' = Call("at_version.add_person", <<version, person>>, [r EXCEPT !.value = <<>>])
        /\ UNCHANGED <<targets, dates, people, disk>>

\* config.at_version(version).delete_person(index).
AtVersionDeletePerson(version, index) ==
    LET vc == at_version(version_configs, version)
        r == IF vc.status # "ok" THEN vc
             ELSE at_version_apply(version_configs, version, "people",
                                   delete_person_from(vc.value.people, index))
    IN  /\ version_configs' = IF r.status = "ok" THEN r.value ELSE version_configs
        /\ result' = Call("at_version.delete_person", <<version, index>>, [r EXCEPT !.value = <<>>])
        /\ UNCHANGED <<targets, dates, people, disk>>

\* A VersionConfig as constructed: empty lists; a Config without versions,
\* loaded from the document at its path.
Init ==
    /\ targets = <<>>
    /\ dates = <<>>
    /\ people = <<>>
    /\ version_configs = <<>>
    /\ result = Call("init", <<>>, Ok(<<>>))
    /\ file = save_text(<<>>)
    /\ saving = [pc |-> "idle", old |-> save_text(<<>>), new |-> save_text(<<>>)]
    /\ loaded = load_from(save_text(<<>>))

\* Targets of one VersionConfig: add, delete, filter, select.
Next ==
    \/ \E t \in TargetData : Len(targets) < MaxTargets /\ AddTarget(t)
    \/ \E i \in IndexArgs(MaxTargets) : DeleteTarget(i)
    \/ \E c \in CategoryFilters, n \in NameFilters, inverse \in BOOLEAN :
            FilterTargets(c, n, inverse)
    \/ \E cats \in CategoryLists, sel \in Selectors : SelectTarget(cats, sel)

Spec == Init /\ [][Next]_vars

\* The three lists of one VersionConfig under add and delete.
NextMutate ==
    \/ \E t \in {TargetA, TargetB} : Len(targets) < MaxTargets /\ AddTarget(t)
    \/ \E i \in IndexArgs(MaxTargets) : DeleteTarget(i)
    \/ \E d \in {Single("pentest_ongoing", 2), DateRange("report_sent", 1, 3)} :
            Len(dates) < MaxItems /\ AddDate(d)
    \/ \E i \in IndexArgs(MaxItems) : DeleteDate(i)
    \/ \E p \in PersonData : Len(people) < MaxItems /\ AddPerson(p)
    \/ \E i \in IndexArgs(MaxItems) : DeletePerson(i)

SpecMutate == Init /\ [][NextMutate]_vars

\* Dates of one VersionConfig: add, delete, filter.
NextDates ==
    \/ \E d \in DateData : Len(dates) < MaxItems /\ AddDate(d)
    \/ \E i \in IndexArgs(MaxItems) : DeleteDate(i)
    \/ \E type \in DateTypeFilters, start \in StartBounds, end \in EndBounds,
          inverse \in BOOLEAN : FilterDates(type, start, end, inverse)

SpecDates == Init /\ [][NextDates]_vars

\* The version mapping of a Config: add_version_config and the accessors.
NextConfig ==
    \/ \E v \in ProjectVersions, m \in VersionConfigModels :
            /\ (Len(version_configs) < MaxVersions \/ v \in Range(keys(version_configs)))
            /\ AddVersionConfig(v, m)
    \/ Versions
    \/ \E v \in ProjectVersions : AtVersion(v)
    \/ FirstVersion
    \/ LastVersion
    \/ FirstConfig
    \/ LastConfig

SpecConfig == Init /\ [][NextConfig]_vars

\* The versions a Config under save() is given.
SavedVersions == {Version(1, 5), Version(1, 10)}

\* A Config that is extended and saved, the save running to its end or not.
NextSave ==
    \/ \E v \in SavedVersions, m \in VersionConfigModels :
            saving.pc # "writing" /\ AddVersionConfig(v, m)
    \/ SaveOpen
    \/ SaveWrite
    \/ SaveClose
    \/ SaveInterrupted
    \/ LoadFrom

SpecSave == Init /\ [][NextSave]_vars

\* The number of targets, dates and people a Config holds in all its versions.
RECURSIVE TotalItems(_)
TotalItems(vcs) ==
    IF vcs = <<>> THEN 0
    ELSE Len(Head(vcs).targets) + Len(Head(vcs).dates) + Len(Head(vcs).people)
         + TotalItems(Tail(vcs))

\* A Config that is built by add_version_config and the add and delete
\* operations of its versions, then saved and loaded again.  The Config is
\* edited until its first save.
NextRoundTrip ==
    \/ /\ saving.pc = "idle" /\ file = save_text(<<>>)
       /\ \/ \E v \in SavedVersions : AddVersionConfig(v, ModelInitial)
          \/ \E v \in SavedVersions, t \in {TargetA, TargetB} :
                TotalItems(version_configs) < MaxDocItems /\ AtVersionAddTarget(v, t)
          \/ \E v \in SavedVersions, i \in 0..2 : AtVersionDeleteTarget(v, i)
          \/ \E v \in SavedVersions,
                d \in {Single("pentest_ongoing", 2), DateRange("report_sent", 1, 3)} :
                TotalItems(version_configs) < MaxDocItems /\ AtVersionAddDate(v, d)
          \/ \E v \in SavedVersions, i \in 0..2 : AtVersionDeleteDate(v, i)
          \/ \E v \in SavedVersions, p \in PersonData :
                TotalItems(version_configs) < MaxDocItems /\ AtVersionAddPerson(v, p)
          \/ \E v \in SavedVersions, i \in 0..2 : AtVersionDeletePerson(v, i)
    \/ SaveOpen
    \/ SaveWrite
    \/ SaveClose
    \/ LoadFrom

SpecRoundTrip == Init /\ [][NextRoundTrip]_vars

\* A VersionConfig and a Config under their queries: the lists and the mapping
\* are filled, then filtered, selected from and looked up.
NextQueries ==
    \/ /\ Len(targets) + Len(dates) + Len(people) + Len(version_configs) < MaxQueryItems
       /\ \/ \E t \in {TargetA, TargetB} : AddTarget(t)
          \/ \E d \in {Single("pentest_ongoing", 2), DateRange("report_sent", 1, 3)} : AddDate(d)
          \/ \E p \in PersonData : AddPerson(p)
          \/ \E v \in SavedVersions : AddVersionConfig(v, ModelInitial)
    \/ \E c \in {Str(s_dast), ListArg(<<s_sast, s_dast>>)}, n \in {None, Str(s_api)},
          inverse \in BOOLEAN : FilterTargets(c, n, inverse)
    \/ \E sel \in {None, IntArg(0), IntArg(1), Str(<<"2">>), Str(s_dast), Str(s_x)} :
            SelectTarget(<<s_dast, s_sast, s_mobile>>, sel)
    \/ \E type \in {Str("pentest_ongoing"), Str(s_bogus)}, start \in {None, IntArg(2)},
          inverse \in BOOLEAN : FilterDates(type, start, IntArg(4), inverse)
    \/ \E type \in {Str("author"), ListArg(<<"requestor", "author">>), Str(s_bogus)},
          name \in {None, Str(s_web)}, inverse \in BOOLEAN :
            FilterPeople(type, name, None, None, None, inverse)
    \/ Versions
    \/ \E v \in SavedVersions : AtVersion(v)

SpecQueries == Init /\ [][NextQueries]_vars

\* -------------------------------------------------------------- claims
\* C1: filter_targets(category=c) and filter_targets(category=c, inverse=True)
\* partition the targets: the result of a call and the result of the same call
\* with inverse flipped are disjoint, and their union is the set of targets.
C1_FilterTargetsPartition ==
    result.op = "filter_targets" =>
        LET other == filter_targets(targets, result.args[1], result.args[2], ~result.args[3])
        IN  /\ Range(result.value) \cap Range(other) = {}
            /\ Range(result.value) \cup Range(other) = Range(targets)

\* C1 witness: a collection of categories splits the targets into two non-empty parts.
C1_Witness ==
    /\ result.op = "filter_targets"
    /\ result.args[1].kind = "list"
    /\ result.args[2].kind = "None"
    /\ result.args[3]
    /\ result.value # <<>>
    /\ Len(result.value) < Len(targets)

\* Whether a selector is an integer or a string composed only of digits.
IsIndexSelector(selector) ==
    selector.kind = "int" \/ (selector.kind = "str" /\ IsDecimal(selector.val))

\* The number an index selector denotes.
IndexOf(selector) == IF selector.kind = "int" THEN selector.val ELSE py_int(selector.val)

\* C2: an integer or digit-string selector n is resolved solely as a 1-based
\* index: the target at position n when 1 <= n <= len(targets), an index-range
\* error otherwise (0 and negative n included), whatever the category names and
\* unique names are.
C2_IndexSelectorByPosition ==
    (result.op = "select_target" /\ IsIndexSelector(result.args[2])) =>
        LET n == IndexOf(result.args[2])
        IN  IF 1 <= n /\ n <= Len(targets)
            THEN result.status = "ok" /\ result.value = targets[n]
            ELSE /\ result.status = "SeretoValueError"
                 /\ result.msg.text = "target index out of range"

\* C2 witness: selector "2" returns the second target while the first target
\* bears the unique name "2".
C2_Witness ==
    /\ result.op = "select_target"
    /\ result.args[2] = Str(<<"2">>)
    /\ Len(targets) >= 2
    /\ targets[1].uname = <<"2">>
    /\ targets[2].uname # <<"2">>
    /\ result.status = "ok"
    /\ result.value = targets[2]

\* C3: without a selector, select_target succeeds iff exactly one target is
\* held, and returns it; otherwise it fails with a selection error reporting
\* the number of targets.
C3_UnsetSelectorSingleTarget ==
    (result.op = "select_target" /\ result.args[2].kind = "None") =>
        /\ result.status = "ok" <=> Len(targets) = 1
        /\ result.status = "ok" => result.value = targets[1]
        /\ result.status # "ok" =>
            /\ result.status = "SeretoValueError"
            /\ result.msg.text = "cannot select target; no selector provided"
            /\ result.msg.arg = Len(targets)

\* C3 witness: no selector and two targets: the error reports 2.
C3_Witness ==
    /\ result.op = "select_target"
    /\ result.args[2].kind = "None"
    /\ Len(targets) = 2
    /\ result.status = "SeretoValueError"
    /\ result.msg.arg = 2

\* C4: a non-numeric string selector that is a known category is decided by the
\* category alone (no target: empty-category error, one: that target, several:
\* ambiguous-category error), even when a target bears it as unique name; a
\* non-numeric string that is no known category must be the unique name of
\* exactly one target, else a not-found error.
C4_CategoryBeforeUname ==
    (result.op = "select_target" /\ result.args[2].kind = "str"
        /\ ~isnumeric(result.args[2].val)) =>
        LET sel == result.args[2].val
            n == Cardinality({ i \in 1..Len(targets) : targets[i].category = sel })
            m == Cardinality({ i \in 1..Len(targets) : targets[i].uname = sel })
        IN  IF sel \in Range(result.args[1])
            THEN /\ n = 0 => /\ result.status = "SeretoValueError"
                             /\ result.msg.text = "category does not contain any target"
                 /\ n = 1 => /\ result.status = "ok"
                             /\ result.value \in Range(targets)
                             /\ result.value.category = sel
                 /\ n >= 2 => /\ result.status = "SeretoValueError"
                              /\ result.msg.text =
                                    "category contains multiple targets, use uname when querying"
            ELSE /\ m = 1 => /\ result.status = "ok"
                             /\ result.value \in Range(targets)
                             /\ result.value.uname = sel
                 /\ m # 1 => /\ result.status = "SeretoValueError"
                             /\ result.msg.text = "target with uname not found"

\* C4 witness: the selector is a known category without targets and the unique
\* name of a target: the call fails with the empty-category error.
C4_Witness ==
    /\ result.op = "select_target"
    /\ result.args[2] = Str(s_dast)
    /\ s_dast \in Range(result.args[1])
    /\ \E i \in 1..Len(targets) : targets[i].uname = s_dast
    /\ \A i \in 1..Len(targets) : targets[i].category # s_dast
    /\ result.status = "SeretoValueError"
    /\ result.msg.text = "category does not contain any target"

\* Whether list `after` is list `before` without its i-th element (1-based).
RemovedAt(before, after, i) ==
    /\ Len(after) = Len(before) - 1
    /\ \A j \in 1..(i - 1) : after[j] = before[j]
    /\ \A j \in i..Len(after) : after[j] = before[j + 1]

\* Whether list `after` is list `before` with x at the new last index.
AppendedTo(before, after, x) ==
    /\ Len(after) = Len(before) + 1
    /\ after[Len(before) + 1] = x
    /\ \A j \in 1..Len(before) : after[j] = before[j]

\* C5: delete_target, delete_date and delete_person with 1 <= i <= length remove
\* exactly the i-th element, the others keeping their order; add_target,
\* add_date and add_person put the new element at index length + 1.
C5_DeleteRemovesIth ==
    [][/\ (result'.op = "delete_target" /\ result'.args[1] \in 1..Len(targets)) =>
            result'.status = "ok" /\ RemovedAt(targets, targets', result'.args[1])
       /\ (result'.op = "delete_date" /\ result'.args[1] \in 1..Len(dates)) =>
            result'.status = "ok" /\ RemovedAt(dates, dates', result'.args[1])
       /\ (result'.op = "delete_person" /\ result'.args[1] \in 1..Len(people)) =>
            result'.status = "ok" /\ RemovedAt(people, people', result'.args[1])
       /\ result'.op = "add_target" => AppendedTo(targets, targets', result'.args[1])
       /\ result'.op = "add_date" => AppendedTo(dates, dates', result'.args[1])
       /\ result'.op = "add_person" => AppendedTo(people, people', result'.args[1])
      ]_vars

\* C5 witness: index 1 was deleted from a list of three targets.
C5_Witness ==
    /\ result.op = "delete_target"
    /\ result.args[1] = 1
    /\ result.status = "ok"
    /\ Len(targets) = 2

\* C6: a delete with an index outside 1..length fails with an index-range error
\* and leaves targets, dates and people as they were.
C6_FailedDeleteUnchanged ==
    [][/\ (result'.op = "delete_target" /\ result'.args[1] \notin 1..Len(targets)) =>
            /\ result'.status = "SeretoValueError"
            /\ result'.msg.text = "index out of range"
            /\ UNCHANGED <<targets, dates, people>>
       /\ (result'.op = "delete_date" /\ result'.args[1] \notin 1..Len(dates)) =>
            /\ result'.status = "SeretoValueError"
            /\ result'.msg.text = "index out of range"
            /\ UNCHANGED <<targets, dates, people>>
       /\ (result'.op = "delete_person" /\ result'.args[1] \notin 1..Len(people)) =>
            /\ result'.status = "SeretoValueError"
            /\ result'.msg.text = "index out of range"
            /\ UNCHANGED <<targets, dates, people>>
      ]_vars

\* C6 witness: delete_target(0) failed on a list that holds three targets.
C6_Witness ==
    /\ result.op = "delete_target"
    /\ result.args[1] = 0
    /\ result.status = "SeretoValueError"
    /\ Len(targets) = 3

\* The VersionConfig stored under `version`.
StoredUnder(vcs, version) == vcs[CHOOSE i \in 1..Len(vcs) : vcs[i].version = version]

\* C7: add_version_config succeeds only for a version that is no key yet, and
\* then adds exactly that key; for a version already present it fails with a
\* duplicate-version error and the stored configuration is unchanged.
C7_AddVersionConfigNoOverwrite ==
    [][result'.op = "add_version_config" =>
        LET version == result'.args[1]
            known == Range(keys(version_configs))
        IN  IF version \in known
            THEN /\ result'.status = "SeretoValueError"
                 /\ result'.msg.text = "version already exists"
                 /\ UNCHANGED version_configs
            ELSE /\ result'.status = "ok"
                 /\ Range(keys(version_configs')) = known \cup {version}
                 /\ Len(version_configs') = Len(version_configs) + 1
                 /\ \A v \in known :
                        StoredUnder(version_configs', v) = StoredUnder(version_configs, v)
      ]_vars

\* C7 witness: the call failed for a stored version, with a document other than
\* the one the version was stored from.
C7_Witness ==
    /\ result.op = "add_version_config"
    /\ result.status = "SeretoValueError"
    /\ result.args[1] \in Range(keys(version_configs))
    /\ StoredUnder(version_configs, result.args[1]) # from_model(result.args[2], result.args[1])

\* C8: Config.versions returns the known versions, each once, in strictly
\* ascending semantic-version order; first_version is the least and
\* last_version the greatest known version.
C8_VersionsSortedAscending ==
    LET known == Range(keys(version_configs))
    IN  /\ result.op = "versions" =>
            /\ result.status = "ok"
            /\ Range(result.value) = known
            /\ Len(result.value) = Cardinality(known)
            /\ \A i \in 1..(Len(result.value) - 1) :
                    version_lt(result.value[i], result.value[i + 1])
        /\ (result.op = "first_version" /\ known # {}) =>
            /\ result.status = "ok"
            /\ result.value \in known
            /\ \A v \in known : ~version_lt(v, result.value)
        /\ (result.op = "last_version" /\ known # {}) =>
            /\ result.status = "ok"
            /\ result.value \in known
            /\ \A v \in known : ~version_lt(result.value, v)

\* String order of version strings: lexicographic, "." before every digit.
RECURSIVE str_lt(_, _)
str_lt(a, b) ==
    LET ord(c) == IF c = "." THEN 0 ELSE DigitValue(c) + 1
    IN  IF b = <<>> THEN FALSE
        ELSE IF a = <<>> THEN TRUE
        ELSE IF ord(Head(a)) # ord(Head(b)) THEN ord(Head(a)) < ord(Head(b))
        ELSE str_lt(Tail(a), Tail(b))

\* C8 witness: three versions whose sorted list is neither the insertion order
\* nor the order of their strings.
C8_Witness ==
    /\ result.op = "versions"
    /\ Len(result.value) = 3
    /\ result.value # keys(version_configs)
    /\ \E i \in 1..2 : str_lt(version_str(result.value[i + 1]), version_str(result.value[i]))

\* Whether date d lies within the inclusive bounds: a single date within them,
\* a range with both its ends within them (each bound that is given).
Contained(d, start, end) ==
    /\ start.kind # "None" => d.start >= start.val
    /\ end.kind # "None" => d.end <= end.val

\* C9: filter_dates tests containment: a date is in the normal result iff its
\* type passes and it is contained in [start, end]; every other date, a range
\* that only overlaps the bounds included, is in the inverse result.
C9_FilterDatesContainment ==
    (result.op = "filter_dates" /\ result.status = "ok") =>
        LET type == result.args[1]
            types == IF type.kind = "str" THEN {type.val} ELSE Range(type.val)
            Match(d) ==
                /\ type.kind # "None" => d.type \in types
                /\ Contained(d, result.args[2], result.args[3])
            Wanted(d) == IF result.args[4] THEN ~Match(d) ELSE Match(d)
        IN  /\ Range(result.value) \subseteq Range(dates)
            /\ \A d \in Range(dates) : d \in Range(result.value) <=> Wanted(d)

\* C9 witness: bounds [2, 4]: the range [2, 3] is in the result and the range
\* [3, 5], which overlaps the bounds, is not.
C9_Witness ==
    /\ result.op = "filter_dates"
    /\ result.args[2] = IntArg(2)
    /\ result.args[3] = IntArg(4)
    /\ ~result.args[4]
    /\ DateRange("pentest_ongoing", 3, 5) \in Range(dates)
    /\ result.value = <<DateRange("pentest_ongoing", 2, 3)>>

\* C10: on a Config without versions, first_version, last_version, first_config
\* and last_config fail with the domain error (SeretoValueError).
C10_EmptyConfigDomainError ==
    (version_configs = <<>>
        /\ result.op \in {"first_version", "last_version", "first_config", "last_config"}) =>
        result.status = "SeretoValueError"

\* C11: at every point of a save(), interrupted or not, the document at the
\* path is the whole document persisted before or the whole new document.
C11_SaveNoPartialFile == file = saving.old \/ file = saving.new

\* Whether a loaded Config equals the mapping vcs in its observable fields:
\* the tool version, the versions, and under each version the id, name,
\* description and the lists of targets, dates and people in their order.
SameConfig(config, vcs) ==
    /\ config.sereto_version = sereto_version
    /\ Len(config.version_configs) = Len(vcs)
    /\ Range(keys(config.version_configs)) = Range(keys(vcs))
    /\ \A v \in Range(keys(vcs)) :
        LET a == StoredUnder(config.version_configs, v)
            b == StoredUnder(vcs, v)
        IN  /\ a.version = b.version
            /\ a.id = b.id
            /\ a.name = b.name
            /\ a.version_description = b.version_description
            /\ a.targets = b.targets
            /\ a.dates = b.dates
            /\ a.people = b.people

RECURSIVE IsSubsequence(_, _)
IsSubsequence(a, b) ==
    IF a = <<>> THEN TRUE
    ELSE IF b = <<>> THEN FALSE
    ELSE IF Head(a) = Head(b) THEN IsSubsequence(Tail(a), Tail(b))
    ELSE IsSubsequence(a, Tail(b))

\* C13: filter_targets, filter_dates, filter_people, select_target, versions
\* and at_version, succeeding or failing, inverse or not, leave the targets,
\* dates, people and the version mapping unchanged, and every filter result is
\* a subsequence of the stored list.
C13_QueriesReadOnly ==
    [][result'.op \in {"filter_targets", "filter_dates", "filter_people",
                       "select_target", "versions", "at_version"} =>
        /\ UNCHANGED <<targets, dates, people, version_configs>>
        /\ result'.op = "filter_targets" => IsSubsequence(result'.value, targets)
        /\ (result'.op = "filter_dates" /\ result'.status = "ok") =>
                IsSubsequence(result'.value, dates)
        /\ (result'.op = "filter_people" /\ result'.status = "ok") =>
                IsSubsequence(result'.value, people)
      ]_vars

\* C13 witness: an inverse filter_people returned the second of two people.
C13_Witness ==
    /\ result.op = "filter_people"
    /\ result.args[6]
    /\ Len(people) = 2
    /\ people[1] # people[2]
    /\ result.status = "ok"
    /\ result.value = <<people[2]>>

=============================================================================
